---- MODULE Spec2Model ----
(***************************************************************************)
(* Model of the beach-party sample: the BeachAgent request core            *)
(* (beach_agent/agent.py), the tool provisioning lifespan and the local    *)
(* fallback tool (beach_agent/__main__.py), and PlannerAgent.stream        *)
(* (planner_agent/agent.py).                                               *)
(***************************************************************************)
EXTENDS Integers, Sequences, FiniteSets, TLC

(***************************************************************************)
(* Bounds of the model.                                                    *)
(***************************************************************************)
\* Longest chunk sequence the backend's streamed call delivers.
MaxChunks == 2
\* Longest tool list the tool provider returns.
MaxLiveTools == 2
\* Longest query handed to local_beach_search.
MaxQueryLen == 2

(***************************************************************************)
(* Values exchanged with the language backend.  A message content is       *)
(* either a str or a list of parts; val = "" is the empty str / list.      *)
(***************************************************************************)
Str(s) == [isStr |-> TRUE, val |-> s]
Parts(s) == [isStr |-> FALSE, val |-> s]
\* Python truthiness of a content value: a non-empty str or list.
Truthy(c) == c.val # ""

Requests == {"r1", "r2"}
Queries == {"surf spots", "bondi"}
\* ai_msg.content values model.ainvoke may return
AiContents == {Str(""), Str("Bondi has surf."), Parts("part")}
\* chunk.content values model.astream may deliver
ChunkContents == {Str(""), Str("Bondi "), Str("has surf.")}

SYSTEM_INSTRUCTION ==
    "You are a specialized assistant for beach information. Use the provided web search results to respond accurately."

TaskEvent_asks_input_mutant(complete, content) ==
    [is_task_complete |-> complete, require_user_input |-> ~complete, content |-> content]

\* The task event dictionary built at every return / yield of BeachAgent.
TaskEvent(complete, content) ==
    [is_task_complete |-> complete, require_user_input |-> FALSE, content |-> content]

\* Outcome of one awaited backend call: it raised, or returned content.
Raised == [raised |-> TRUE, content |-> Str("")]
Returned(c) == [raised |-> FALSE, content |-> c]
AiOutcomes == {Raised} \cup {Returned(c) : c \in AiContents}

\* The retrieval call raised or returned no usable (empty or non-str) content.
RetrievalFailed(outcome) ==
    outcome.raised \/ outcome.content.val = "" \/ ~outcome.content.isStr

search_web_any_content_mutant(outcome) ==
    IF outcome.raised THEN "" ELSE outcome.content.val

\* BeachAgent._search_web: the text handed back for the given outcome of
\* its model.ainvoke(search_prompt) call.
search_web(outcome) ==
    IF outcome.raised THEN ""
    ELSE IF Truthy(outcome.content) /\ outcome.content.isStr
         THEN outcome.content.val
         ELSE ""

\* The combined prompt built by ainvoke and stream.
build_prompt(web_results, query) ==
    SYSTEM_INSTRUCTION \o "\n" \o "Web results:\n" \o web_results \o "\n"
        \o "Answer the question: " \o query

\* The prompt _search_web sends to the model: a fixed template around the
\* query (the template's Japanese sentences are given in English here).
search_prompt(query) ==
    "\nYou are an excellent beach information assistant. Search the internet for the query below and collect related information.\nQuery: "
        \o query
        \o "\nFocus your answer on information about beaches.\nDo not deliberate much, summarise the search results quickly.\n                "

\* A call of the language backend: self.model.<method>(prompt).
BackendCall(method, p) == [method |-> method, prompt |-> p]

\* Backend calls issued when ainvoke / stream is entered: the one of
\* _search_web.
calls_on_entry(query) == <<BackendCall("ainvoke", search_prompt(query))>>

\* Backend calls issued once _search_web is back, whatever it brought: the
\* one call with the combined prompt.
calls_after_search(k, p) ==
    <<BackendCall(IF k = "ainvoke" THEN "ainvoke" ELSE "astream", p)>>

calls_after_failure_retry_mutant(k, p) ==
    <<BackendCall(IF k = "ainvoke" THEN "ainvoke" ELSE "astream", p)>>

\* Backend calls issued by the except handlers of ainvoke and stream: none.
calls_after_failure(k, p) == <<>>

\* What a call leaves with its caller: whether an exception escaped, and the
\* events returned / yielded by the step.
Emit(evs) == [escaped |-> FALSE, events |-> evs]
Escape == [escaped |-> TRUE, events |-> <<>>]

ainvoke_raises_mutant(outcome) ==
    IF outcome.raised THEN Escape
    ELSE Emit(<<TaskEvent(TRUE, outcome.content)>>)

ainvoke_wrong_message_mutant(outcome) ==
    IF outcome.raised
    THEN Emit(<<TaskEvent(TRUE, Str("Streaming error occurred."))>>)
    ELSE Emit(<<TaskEvent(TRUE, outcome.content)>>)

ainvoke_failure_incomplete_mutant(outcome) ==
    IF outcome.raised
    THEN Emit(<<TaskEvent(FALSE, Str("Failed to retrieve information."))>>)
    ELSE Emit(<<TaskEvent(TRUE, outcome.content)>>)

\* BeachAgent.ainvoke, try/except around model.ainvoke(prompt).
ainvoke_result(outcome) ==
    IF outcome.raised
    THEN Emit(<<TaskEvent(TRUE, Str("Failed to retrieve information."))>>)
    ELSE Emit(<<TaskEvent(TRUE, outcome.content)>>)

stream_chunk_unfiltered_mutant(content) ==
    Emit(<<TaskEvent(FALSE, content)>>)

\* BeachAgent.stream, body of the async for: one chunk arrived.
stream_chunk(content) ==
    IF Truthy(content) THEN Emit(<<TaskEvent(FALSE, content)>>) ELSE Emit(<<>>)

stream_exhausted_silent_mutant == Emit(<<>>)

\* BeachAgent.stream, the yield after the async for has ended.
stream_exhausted == Emit(<<TaskEvent(TRUE, Str(""))>>)

stream_failed_wrong_message_mutant ==
    Emit(<<TaskEvent(TRUE, Str("Failed to retrieve information."))>>)

\* BeachAgent.stream, the except handler.
stream_failed == Emit(<<TaskEvent(TRUE, Str("Streaming error occurred."))>>)

(***************************************************************************)
(* beach_agent/__main__.py: the application context and the provisioning   *)
(* decisions of app_lifespan.                                              *)
(***************************************************************************)
\* Tools the configured tool provider (SERVER_CONFIGS) can expose.
LiveTools == {"airbnb_search", "airbnb_listing_details"}

\* All sequences over S of length at most n.
RECURSIVE SeqsUpTo(_, _)
SeqsUpTo(S, n) ==
    IF n = 0 THEN {<<>>}
    ELSE LET shorter == SeqsUpTo(S, n - 1)
         IN  shorter \cup {Append(t, x) : t \in shorter, x \in S}

\* Tool lists get_tools may return.
ToolLists == SeqsUpTo(LiveTools, MaxLiveTools)

\* A dict: a function from the keys it holds.
EmptyDict == [k \in {} |-> FALSE]
Put(d, k, v) == [x \in DOMAIN d \cup {k} |-> IF x = k THEN v ELSE d[x]]
Get(d, k, default) == IF k \in DOMAIN d THEN d[k] ELSE default

\* MultiServerMCPClient defines __aexit__.
HasAexit == TRUE

on_get_tools_no_zero_check_mutant(context, tools) ==
    [ok |-> TRUE,
     context |-> Put(Put(context, "using_fallback_tools", FALSE), "mcp_tools", tools)]

on_get_tools_early_flag_mutant(context, tools) ==
    IF tools # <<>>
    THEN [ok |-> TRUE,
          context |-> Put(Put(context, "using_fallback_tools", FALSE), "mcp_tools", tools)]
    ELSE [ok |-> FALSE, context |-> Put(context, "using_fallback_tools", FALSE)]

on_get_tools_no_write_mutant(context, tools) ==
    IF tools # <<>>
    THEN [ok |-> TRUE, context |-> context]
    ELSE [ok |-> FALSE, context |-> context]

\* app_lifespan after get_tools returned: zero tools raise ValueError into
\* the except handler (ok = FALSE), otherwise the flag and the tools are
\* written to the context.
on_get_tools(context, tools) ==
    IF tools # <<>>
    THEN [ok |-> TRUE,
          context |-> Put(Put(context, "using_fallback_tools", FALSE), "mcp_tools", tools)]
    ELSE [ok |-> FALSE, context |-> context]

fallback_tools_empty_mutant == <<>>

\* The list the except handler substitutes: [local_beach_search].
fallback_tools == <<"local_beach_search">>

\* app_lifespan, end of the except handler and the write that follows it.
on_fallback(context) ==
    Put(Put(context, "using_fallback_tools", TRUE), "mcp_tools", fallback_tools)

\* app_lifespan, except handler: `try: await ...__aexit__(...)` with
\* `except Exception: pass`; the exception that leaves the inner try.
on_cleanup_aexit(raised) == "none"

on_shutdown_aexit_escalates_mutant(raised, pending) ==
    IF raised THEN "error" ELSE pending

\* app_lifespan, finally: a raise of __aexit__ is caught and printed; the
\* exception that leaves the finally clause is the one the body ended with.
on_shutdown_aexit(raised, pending) == pending

must_release_only_on_clean_exit_mutant(client, exception) ==
    client # "None" /\ HasAexit /\ exception = "none"

\* app_lifespan, finally: whether __aexit__ is awaited on the client.  The
\* finally clause runs however the body ended.
must_release(client, exception) == client # "None" /\ HasAexit

(***************************************************************************)
(* beach_agent/__main__.py: the local fallback tool.                       *)
(***************************************************************************)
LOCAL_BEACHES ==
    << [name |-> "Bondi Beach", location |-> "Sydney, Australia",
        features |-> "surfing, amenities, family friendly"],
       [name |-> "Waikiki Beach", location |-> "Honolulu, Hawaii",
        features |-> "resort area, gentle waves"],
       [name |-> "Santa Monica Beach", location |-> "California, USA",
        features |-> "pier, boardwalk, great for sunset"] >>

\* str.lower() on one character (the catalog and the queries are ASCII).
LowerChar(c) ==
    CASE c = "A" -> "a" [] c = "B" -> "b" [] c = "C" -> "c" [] c = "D" -> "d"
      [] c = "E" -> "e" [] c = "F" -> "f" [] c = "G" -> "g" [] c = "H" -> "h"
      [] c = "I" -> "i" [] c = "J" -> "j" [] c = "K" -> "k" [] c = "L" -> "l"
      [] c = "M" -> "m" [] c = "N" -> "n" [] c = "O" -> "o" [] c = "P" -> "p"
      [] c = "Q" -> "q" [] c = "R" -> "r" [] c = "S" -> "s" [] c = "T" -> "t"
      [] c = "U" -> "u" [] c = "V" -> "v" [] c = "W" -> "w" [] c = "X" -> "x"
      [] c = "Y" -> "y" [] c = "Z" -> "z" [] OTHER -> c

\* str.lower()
RECURSIVE lower(_)
lower(s) ==
    IF s = "" THEN "" ELSE LowerChar(SubSeq(s, 1, 1)) \o lower(SubSeq(s, 2, Len(s)))

\* Python's `needle in hay` on strings.
Contains(hay, needle) ==
    \E i \in 0..(Len(hay) - Len(needle)) : SubSeq(hay, i + 1, i + Len(needle)) = needle

\* "\n".join(lines)
RECURSIVE join_lines(_)
join_lines(lines) ==
    IF lines = <<>> THEN ""
    ELSE IF Len(lines) = 1 THEN lines[1]
    ELSE lines[1] \o "\n" \o join_lines(Tail(lines))

\* The text of an entry the query is looked up in.
entry_text(b) == b.name \o " " \o b.location \o " " \o b.features

\* The rendering of one matching entry.
render(b) == b.name \o " (" \o b.location \o ") - " \o b.features

local_beach_search_case_sensitive_mutant(q) ==
    LET matches == SelectSeq(LOCAL_BEACHES, LAMBDA b : Contains(lower(entry_text(b)), q))
    IN  IF matches = <<>>
        THEN "No local beach information found for your query."
        ELSE join_lines([i \in 1..Len(matches) |-> render(matches[i])])

\* local_beach_search(query)
local_beach_search(q) ==
    LET query_lower == lower(q)
        matches == SelectSeq(LOCAL_BEACHES,
                             LAMBDA b : Contains(lower(entry_text(b)), query_lower))
    IN  IF matches = <<>>
        THEN "No local beach information found for your query."
        ELSE join_lines([i \in 1..Len(matches) |-> render(matches[i])])

\* Characters the modelled queries are built from.
QueryChars == {"B", "o", "N", "h", " ", "s", "x", "k"}

\* All strings over QueryChars of length at most n.
RECURSIVE StringsUpTo(_)
StringsUpTo(n) ==
    IF n = 0 THEN {""}
    ELSE LET shorter == StringsUpTo(n - 1)
         IN  shorter \cup {t \o c : t \in shorter, c \in QueryChars}

ToolQueries == StringsUpTo(MaxQueryLen)

(***************************************************************************)
(* planner_agent/agent.py: PlannerAgent.stream.                            *)
(***************************************************************************)
\* The dictionaries PlannerAgent.stream yields.
PlannerEvent(content, done) == [content |-> content, done |-> done]

\* A chunk of model.stream: it may lack the content attribute, and its
\* content may be empty.
PlannerChunk(has_content, content) == [has_content |-> has_content, content |-> content]
PlannerChunks ==
    {PlannerChunk(FALSE, ""), PlannerChunk(TRUE, ""),
     PlannerChunk(TRUE, "Pack "), PlannerChunk(TRUE, "sunscreen.")}

planner_chunk_unfiltered_mutant(chunk) ==
    IF chunk.has_content THEN Emit(<<PlannerEvent(chunk.content, FALSE)>>) ELSE Emit(<<>>)

\* PlannerAgent.stream, body of the for loop: one chunk arrived.
planner_chunk(chunk) ==
    IF chunk.has_content /\ chunk.content # ""
    THEN Emit(<<PlannerEvent(chunk.content, FALSE)>>)
    ELSE Emit(<<>>)

\* PlannerAgent.stream, the yield after the for loop.
planner_exhausted == Emit(<<PlannerEvent("", TRUE)>>)

\* PlannerAgent.stream, the except handler.
planner_failed ==
    Emit(<<PlannerEvent("Sorry, an error occurred while processing your request.", TRUE)>>)

(***************************************************************************)
(* State.                                                                  *)
(***************************************************************************)
VARIABLES
    \* per request (a call of ainvoke or stream)
    pc,            \* position of the coroutine / generator
    kind,          \* "none", "ainvoke" or "stream"
    query,         \* the query argument
    web_results,   \* local web_results
    prompt,        \* local prompt
    chunks,        \* chunk contents the backend's astream delivered so far
    backend,       \* what the backend call with the combined prompt did
    events,        \* events returned / yielded to the caller so far
    escaped,       \* an exception left the call
    calls,         \* the backend calls the call has issued, in order
    retrieval,     \* how the retrieval step of the call went
    \* beach_agent/__main__.py
    lpc,                  \* position of cli_main / run_server_async / app_lifespan
    app_context,          \* the module-level dict app_context
    mcp_client_instance,  \* app_lifespan's local: "None" or "client"
    mcp_tools,            \* app_lifespan's local list
    provision,            \* what the tool provider did during provisioning
    aexit_calls,          \* where __aexit__ was awaited on the client, in order
    executor_built,       \* BeachAgentExecutor has been constructed
    executor_tools,       \* the mcp_tools argument it was constructed with
    exception,            \* exception propagating out of the lifespan body
    aexit_failed,         \* the awaits of __aexit__ that raised: "startup", "shutdown"
    \* a call of the fallback tool
    tool_query,           \* the query argument
    tool_called,          \* the call has returned
    tool_result,          \* the string it returned
    \* a call of PlannerAgent.stream
    ppc,                  \* position of the generator
    pquery,               \* the query argument
    pchunks,              \* chunks model.stream delivered so far
    pbackend,             \* what building the messages and model.stream did
    pevents,              \* events yielded to the caller so far
    pescaped,             \* an exception left the generator
    \* a run of the `all` command of main.py
    cmd_pc,               \* position in start_all
    processes,            \* start_all's list of sibling handles, once bound
    proc_state,           \* each sibling process: absent, running, exited by
                          \* itself, or terminated by the signal it was sent
    terminate_sent,       \* the siblings whose handle got terminate()
    host_state,           \* the host process: absent, running, exited or not started
    host_returncode,      \* its exit status once it exited
    cmd_outcome           \* how the command ended: none, returned or raised

agentVars == <<pc, kind, query, web_results, prompt, chunks, backend, events, escaped,
               calls, retrieval>>

mainVars == <<lpc, app_context, mcp_client_instance, mcp_tools, provision,
              aexit_calls, executor_built, executor_tools, exception,
              aexit_failed>>

toolVars == <<tool_query, tool_called, tool_result>>

plannerVars == <<ppc, pquery, pchunks, pbackend, pevents, pescaped>>

launcherVars ==
    <<cmd_pc, processes, proc_state, terminate_sent, host_state, host_returncode, cmd_outcome>>

vars == <<agentVars, mainVars, toolVars, plannerVars, launcherVars>>

AgentInit ==
    /\ pc = [r \in Requests |-> "idle"]
    /\ kind = [r \in Requests |-> "none"]
    /\ query = [r \in Requests |-> ""]
    /\ web_results = [r \in Requests |-> ""]
    /\ prompt = [r \in Requests |-> ""]
    /\ chunks = [r \in Requests |-> <<>>]
    /\ backend = [r \in Requests |-> "none"]
    /\ events = [r \in Requests |-> <<>>]
    /\ escaped = [r \in Requests |-> FALSE]
    /\ calls = [r \in Requests |-> <<>>]
    /\ retrieval = [r \in Requests |-> "none"]

Deliver_shared_buffer_mutant(r, res, nextPc) ==
    /\ events' = [x \in Requests |-> events[x] \o res.events]
    /\ escaped' = [escaped EXCEPT ![r] = res.escaped]
    /\ pc' = [pc EXCEPT ![r] = IF res.escaped THEN "done" ELSE nextPc]

\* Deliver a step's result to the caller of request r.
Deliver(r, res, nextPc) ==
    /\ events' = [events EXCEPT ![r] = @ \o res.events]
    /\ escaped' = [escaped EXCEPT ![r] = res.escaped]
    /\ pc' = [pc EXCEPT ![r] = IF res.escaped THEN "done" ELSE nextPc]

\* A caller calls ainvoke(q) or starts iterating stream(q); the call runs up
\* to its first suspension point, the backend call inside _search_web.
Call(r, k, q) ==
    /\ pc[r] = "idle"
    /\ pc' = [pc EXCEPT ![r] = "search"]
    /\ kind' = [kind EXCEPT ![r] = k]
    /\ query' = [query EXCEPT ![r] = q]
    /\ calls' = [calls EXCEPT ![r] = calls_on_entry(q)]
    /\ UNCHANGED <<web_results, prompt, chunks, backend, events, escaped, retrieval>>

\* The retrieval call finishes (returns or raises); the prompt is built and
\* the backend is called with it: ainvoke awaits model.ainvoke(prompt),
\* stream awaits the first chunk of model.astream(prompt).
SearchDone(r, outcome) ==
    /\ pc[r] = "search"
    /\ web_results' = [web_results EXCEPT ![r] = search_web(outcome)]
    /\ prompt' = [prompt EXCEPT ![r] = build_prompt(search_web(outcome), query[r])]
    /\ pc' = [pc EXCEPT ![r] = IF kind[r] = "ainvoke" THEN "invoke" ELSE "astream"]
    /\ backend' = [backend EXCEPT ![r] = "pending"]
    /\ retrieval' = [retrieval EXCEPT ![r] = IF RetrievalFailed(outcome) THEN "failed" ELSE "ok"]
    /\ calls' = [calls EXCEPT ![r] =
                    @ \o calls_after_search(kind[r], build_prompt(search_web(outcome), query[r]))]
    /\ UNCHANGED <<kind, query, chunks, events, escaped>>

\* ainvoke: model.ainvoke(prompt) returns or raises.
InvokeDone(r, outcome) ==
    /\ pc[r] = "invoke"
    /\ backend' = [backend EXCEPT ![r] = IF outcome.raised THEN "raised" ELSE "returned"]
    /\ Deliver(r, ainvoke_result(outcome), "done")
    /\ calls' = [calls EXCEPT ![r] =
                    IF outcome.raised THEN @ \o calls_after_failure(kind[r], prompt[r]) ELSE @]
    /\ UNCHANGED <<kind, query, web_results, prompt, chunks, retrieval>>

\* stream: the backend delivers one more chunk.
StreamChunk(r, content) ==
    /\ pc[r] = "astream"
    /\ Len(chunks[r]) < MaxChunks
    /\ chunks' = [chunks EXCEPT ![r] = Append(@, content)]
    /\ Deliver(r, stream_chunk(content), "astream")
    /\ UNCHANGED <<kind, query, web_results, prompt, backend, calls, retrieval>>

\* stream: the backend's chunk sequence is exhausted.
StreamExhausted(r) ==
    /\ pc[r] = "astream"
    /\ backend' = [backend EXCEPT ![r] = "exhausted"]
    /\ Deliver(r, stream_exhausted, "closing")
    /\ UNCHANGED <<kind, query, web_results, prompt, chunks, calls, retrieval>>

\* stream: the backend raises, before the first chunk or after any chunk.
StreamRaises(r) ==
    /\ pc[r] = "astream"
    /\ backend' = [backend EXCEPT ![r] = "raised"]
    /\ Deliver(r, stream_failed, "closing")
    /\ calls' = [calls EXCEPT ![r] = @ \o calls_after_failure(kind[r], prompt[r])]
    /\ UNCHANGED <<kind, query, web_results, prompt, chunks, retrieval>>

\* stream: resumed after its last yield, the generator runs off its end.
StreamClose(r) ==
    /\ pc[r] = "closing"
    /\ pc' = [pc EXCEPT ![r] = "done"]
    /\ UNCHANGED <<kind, query, web_results, prompt, chunks, backend, events, escaped,
                   calls, retrieval>>

\* The caller drops the finished call; the slot can carry the next call.
Collect(r) ==
    /\ pc[r] = "done"
    /\ pc' = [pc EXCEPT ![r] = "idle"]
    /\ kind' = [kind EXCEPT ![r] = "none"]
    /\ query' = [query EXCEPT ![r] = ""]
    /\ web_results' = [web_results EXCEPT ![r] = ""]
    /\ prompt' = [prompt EXCEPT ![r] = ""]
    /\ chunks' = [chunks EXCEPT ![r] = <<>>]
    /\ backend' = [backend EXCEPT ![r] = "none"]
    /\ events' = [events EXCEPT ![r] = <<>>]
    /\ escaped' = [escaped EXCEPT ![r] = FALSE]
    /\ calls' = [calls EXCEPT ![r] = <<>>]
    /\ retrieval' = [retrieval EXCEPT ![r] = "none"]

AgentStep(r) ==
    \/ \E k \in {"ainvoke", "stream"}, q \in Queries : Call(r, k, q)
    \/ \E o \in AiOutcomes : SearchDone(r, o)
    \/ \E o \in AiOutcomes : InvokeDone(r, o)
    \/ \E c \in ChunkContents : StreamChunk(r, c)
    \/ StreamExhausted(r)
    \/ StreamRaises(r)
    \/ StreamClose(r)
    \/ Collect(r)

(***************************************************************************)
(* cli_main, run_server_async and app_lifespan.                            *)
(***************************************************************************)
\* The module has been imported; cli_main has not run yet.
MainInit ==
    /\ lpc = "init"
    /\ app_context = EmptyDict
    /\ mcp_client_instance = "None"
    /\ mcp_tools = <<>>
    /\ provision = "none"
    /\ aexit_calls = <<>>
    /\ executor_built = FALSE
    /\ executor_tools = <<>>
    /\ aexit_failed = {}
    /\ exception = "none"

\* cli_main without GOOGLE_API_KEY: sys.exit(1) before anything is started.
CliMainNoKey ==
    /\ lpc = "init"
    /\ lpc' = "exit_error"
    /\ UNCHANGED <<app_context, mcp_client_instance, mcp_tools, provision,
                   aexit_calls, executor_built, executor_tools, aexit_failed, exception>>

FallbackFrom_keeps_client_mutant(context) ==
    /\ mcp_client_instance' = mcp_client_instance
    /\ mcp_tools' = fallback_tools
    /\ app_context' = on_fallback(context)
    /\ lpc' = "body"

\* The except handler of app_lifespan once any cleanup is over, and the write
\* of context["mcp_tools"]; the lifespan then yields to the body.
FallbackFrom(context) ==
    /\ mcp_client_instance' = "None"
    /\ mcp_tools' = fallback_tools
    /\ app_context' = on_fallback(context)
    /\ lpc' = "body"

Fallback == FallbackFrom(app_context)

\* app_lifespan is entered and MultiServerMCPClient(SERVER_CONFIGS) is
\* constructed.  If the constructor raises there is no instance to release.
CreateClient(raised) ==
    /\ lpc = "init"
    /\ IF raised
       THEN /\ provision' = "client_raised"
            /\ Fallback
       ELSE /\ mcp_client_instance' = "client"
            /\ lpc' = "get_tools"
            /\ UNCHANGED <<app_context, mcp_tools, provision>>
    /\ UNCHANGED <<aexit_calls, executor_built, executor_tools, aexit_failed, exception>>

\* The except handler starts with an instance at hand: __aexit__ is awaited.
\* The try block left the local mcp_tools as `tools` and the context as
\* `context`.
StartCleanup(tools, context) ==
    IF mcp_client_instance # "None" /\ HasAexit
    THEN /\ lpc' = "cleanup_aexit"
         /\ aexit_calls' = Append(aexit_calls, "startup")
         /\ mcp_tools' = tools
         /\ app_context' = context
         /\ UNCHANGED mcp_client_instance
    ELSE /\ FallbackFrom(context)
         /\ UNCHANGED aexit_calls

\* await get_tools() returns a list.
GetToolsReturns(tools) ==
    /\ lpc = "get_tools"
    /\ provision' = IF tools = <<>> THEN "zero_tools" ELSE "ok"
    /\ LET res == on_get_tools(app_context, tools)
       IN  IF res.ok
           THEN /\ mcp_tools' = tools
                /\ app_context' = res.context
                /\ lpc' = "body"
                /\ UNCHANGED <<mcp_client_instance, aexit_calls>>
           ELSE StartCleanup(tools, res.context)
    /\ UNCHANGED <<executor_built, executor_tools, aexit_failed, exception>>

\* await get_tools() raises.
GetToolsRaises ==
    /\ lpc = "get_tools"
    /\ provision' = "get_tools_raised"
    /\ StartCleanup(mcp_tools, app_context)
    /\ UNCHANGED <<executor_built, executor_tools, aexit_failed, exception>>

\* The cleanup __aexit__ returns or raises; a raise is swallowed.
CleanupAexitDone(raised) ==
    /\ lpc = "cleanup_aexit"
    /\ LET e == on_cleanup_aexit(raised)
       IN  IF e = "none"
           THEN /\ Fallback
                /\ UNCHANGED exception
           ELSE /\ exception' = e
                /\ lpc' = "startup_raised"
                /\ UNCHANGED <<app_context, mcp_client_instance, mcp_tools>>
    /\ aexit_failed' = IF raised THEN aexit_failed \cup {"startup"} ELSE aexit_failed
    /\ UNCHANGED <<provision, aexit_calls, executor_built, executor_tools>>

\* The body of `async with app_lifespan(...)` ends, normally or with an
\* exception e; the finally clause of app_lifespan runs up to the await of
\* __aexit__, or to its end when there is nothing to release.
LeaveBody(e) ==
    /\ exception' = e
    /\ IF must_release(mcp_client_instance, e)
       THEN /\ lpc' = "shutdown_aexit"
            /\ aexit_calls' = Append(aexit_calls, "shutdown")
            /\ UNCHANGED app_context
       ELSE /\ lpc' = "lifespan_exited"
            /\ app_context' = EmptyDict
            /\ UNCHANGED aexit_calls
    /\ UNCHANGED <<mcp_client_instance, mcp_tools, provision>>

\* BeachAgentExecutor(mcp_tools=app_context.get("mcp_tools", [])).
BuildExecutor(raised) ==
    /\ lpc = "body"
    /\ IF raised
       THEN /\ LeaveBody("error")
            /\ UNCHANGED <<executor_built, executor_tools, aexit_failed>>
       ELSE /\ executor_built' = TRUE
            /\ executor_tools' = Get(app_context, "mcp_tools", <<>>)
            /\ lpc' = "built"
            /\ UNCHANGED <<app_context, mcp_client_instance, mcp_tools, provision,
                           aexit_calls, exception, aexit_failed>>

\* The request handler, the application, the uvicorn config and server are
\* built and serve() is awaited.
StartServer(raised) ==
    /\ lpc = "built"
    /\ IF raised
       THEN LeaveBody("error")
       ELSE /\ lpc' = "serving"
            /\ UNCHANGED <<app_context, mcp_client_instance, mcp_tools, provision,
                           aexit_calls, exception>>
    /\ UNCHANGED <<executor_built, executor_tools, aexit_failed>>

\* serve() returns, is interrupted (KeyboardInterrupt, caught in the body) or
\* raises.
ServeEnds(how) ==
    /\ lpc = "serving"
    /\ LeaveBody(IF how = "raise" THEN "error" ELSE "none")
    /\ UNCHANGED <<executor_built, executor_tools, aexit_failed>>

\* The shutdown __aexit__ returns or raises (logged); the context is cleared.
ShutdownAexitDone(raised) ==
    /\ lpc = "shutdown_aexit"
    /\ lpc' = "lifespan_exited"
    /\ exception' = on_shutdown_aexit(raised, exception)
    /\ app_context' = IF raised /\ on_shutdown_aexit(raised, "none") # "none"
                      THEN app_context
                      ELSE EmptyDict
    /\ UNCHANGED <<mcp_client_instance, mcp_tools, provision, aexit_calls,
                   executor_built, executor_tools>>
    /\ aexit_failed' = IF raised THEN aexit_failed \cup {"shutdown"} ELSE aexit_failed

\* asyncio.run returns or raises into cli_main's handlers (sys.exit(1)).
CliMainExit ==
    /\ lpc \in {"lifespan_exited", "startup_raised"}
    /\ lpc' = IF exception = "none" THEN "exit_ok" ELSE "exit_error"
    /\ UNCHANGED <<app_context, mcp_client_instance, mcp_tools, provision,
                   aexit_calls, executor_built, executor_tools, aexit_failed, exception>>

MainStep ==
    \/ CliMainNoKey
    \/ \E raised \in BOOLEAN : CreateClient(raised)
    \/ \E tools \in ToolLists : GetToolsReturns(tools)
    \/ GetToolsRaises
    \/ \E raised \in BOOLEAN : CleanupAexitDone(raised)
    \/ \E raised \in BOOLEAN : BuildExecutor(raised)
    \/ \E raised \in BOOLEAN : StartServer(raised)
    \/ \E how \in {"return", "KeyboardInterrupt", "raise"} : ServeEnds(how)
    \/ \E raised \in BOOLEAN : ShutdownAexitDone(raised)
    \/ CliMainExit

\* Requests the running server dispatches to the agent.
Served == {"r1"}

\* While serve() runs, a request makes a step.
Serve(r) == lpc = "serving" /\ AgentStep(r)

\* No call of the fallback tool is under way.
ToolInit ==
    /\ tool_query = ""
    /\ tool_called = FALSE
    /\ tool_result = ""

\* No call of PlannerAgent.stream is under way.
PlannerInit ==
    /\ ppc = "idle"
    /\ pquery = ""
    /\ pchunks = <<>>
    /\ pbackend = "none"
    /\ pevents = <<>>
    /\ pescaped = FALSE

\* The sibling agents start_all spawns, in the order of its list.
Siblings == <<"weather_agent", "beach_agent">>

SiblingSet == {Siblings[i] : i \in 1..Len(Siblings)}

\* Exit statuses of the host process.
ReturnCodes == {0, 1, 2}

\* The `all` command has not started.
LauncherInit ==
    /\ cmd_pc = "start"
    /\ processes = <<>>
    /\ proc_state = [p \in SiblingSet |-> "absent"]
    /\ terminate_sent = {}
    /\ host_state = "absent"
    /\ host_returncode = 0
    /\ cmd_outcome = "none"

Init == AgentInit /\ MainInit /\ ToolInit /\ PlannerInit /\ LauncherInit

Next ==
    \/ MainStep /\ UNCHANGED <<agentVars, toolVars, plannerVars, launcherVars>>
    \/ (\E r \in Served : Serve(r)) /\ UNCHANGED <<mainVars, toolVars, plannerVars, launcherVars>>

\* The beach agent server: cli_main from start to exit.
Spec == Init /\ [][Next]_vars

\* The BeachAgent object used by concurrent callers.
AgentNext ==
    (\E r \in Requests : AgentStep(r)) /\ UNCHANGED <<mainVars, toolVars, plannerVars, launcherVars>>

SpecAgent == Init /\ [][AgentNext]_vars

\* What a call in flight does next without its caller: the awaited backend
\* call returns, raises or delivers, and the generator is resumed.
Progress(r) ==
    /\ \/ \E o \in AiOutcomes : SearchDone(r, o)
       \/ \E o \in AiOutcomes : InvokeDone(r, o)
       \/ \E c \in ChunkContents : StreamChunk(r, c)
       \/ StreamExhausted(r)
       \/ StreamRaises(r)
       \/ StreamClose(r)
    /\ UNCHANGED <<mainVars, toolVars, plannerVars, launcherVars>>

\* One caller using the BeachAgent object, call after call.
OneCallerNext == AgentStep("r1") /\ UNCHANGED <<mainVars, toolVars, plannerVars, launcherVars>>

\* The same when every awaited backend call comes back (it returns, raises,
\* or delivers the next chunk of a finite stream) and the caller keeps
\* iterating.
SpecAgentLive == Init /\ [][OneCallerNext]_vars /\ WF_vars(Progress("r1"))

(***************************************************************************)
(* The fallback tool called with any query.                                *)
(***************************************************************************)
SearchInit ==
    /\ AgentInit
    /\ MainInit
    /\ PlannerInit
    /\ LauncherInit
    /\ tool_query \in ToolQueries
    /\ tool_called = FALSE
    /\ tool_result = ""

CallTool ==
    /\ ~tool_called
    /\ tool_called' = TRUE
    /\ tool_result' = local_beach_search(tool_query)
    /\ UNCHANGED <<tool_query, agentVars, mainVars, plannerVars, launcherVars>>

SpecSearch == SearchInit /\ [][CallTool]_vars

(***************************************************************************)
(* PlannerAgent.stream iterated by its caller.                             *)
(***************************************************************************)
\* Hand a step's result to the caller.
PlannerDeliver(res, nextPc) ==
    /\ pevents' = pevents \o res.events
    /\ pescaped' = res.escaped
    /\ ppc' = IF res.escaped THEN "done" ELSE nextPc

\* stream(q) is called: the generator exists, nothing of it has run.
PlannerCall(q) ==
    /\ ppc = "idle"
    /\ ppc' = "created"
    /\ pquery' = q
    /\ UNCHANGED <<pchunks, pbackend, pevents, pescaped>>

\* First next(): the two messages are built and model.stream(messages) is
\* iterated; building them may raise.
PlannerStart(raised) ==
    /\ ppc = "created"
    /\ IF raised
       THEN /\ pbackend' = "build_raised"
            /\ PlannerDeliver(planner_failed, "closing")
       ELSE /\ pbackend' = "pending"
            /\ ppc' = "streaming"
            /\ UNCHANGED <<pevents, pescaped>>
    /\ UNCHANGED <<pquery, pchunks>>

\* model.stream delivers one more chunk.
PlannerGetsChunk(chunk) ==
    /\ ppc = "streaming"
    /\ Len(pchunks) < MaxChunks
    /\ pchunks' = Append(pchunks, chunk)
    /\ PlannerDeliver(planner_chunk(chunk), "streaming")
    /\ UNCHANGED <<pquery, pbackend>>

\* model.stream is exhausted.
PlannerExhausted ==
    /\ ppc = "streaming"
    /\ pbackend' = "exhausted"
    /\ PlannerDeliver(planner_exhausted, "closing")
    /\ UNCHANGED <<pquery, pchunks>>

\* model.stream raises, at its call or at any chunk.
PlannerRaises ==
    /\ ppc = "streaming"
    /\ pbackend' = "raised"
    /\ PlannerDeliver(planner_failed, "closing")
    /\ UNCHANGED <<pquery, pchunks>>

\* Resumed after its last yield, the generator runs off its end.
PlannerClose ==
    /\ ppc = "closing"
    /\ ppc' = "done"
    /\ UNCHANGED <<pquery, pchunks, pbackend, pevents, pescaped>>

\* The caller drops the finished generator.
PlannerCollect ==
    /\ ppc = "done"
    /\ ppc' = "idle"
    /\ pquery' = ""
    /\ pchunks' = <<>>
    /\ pbackend' = "none"
    /\ pevents' = <<>>
    /\ pescaped' = FALSE

PlannerNext ==
    /\ \/ \E q \in Queries : PlannerCall(q)
       \/ \E raised \in BOOLEAN : PlannerStart(raised)
       \/ \E chunk \in PlannerChunks : PlannerGetsChunk(chunk)
       \/ PlannerExhausted
       \/ PlannerRaises
       \/ PlannerClose
       \/ PlannerCollect
    /\ UNCHANGED <<agentVars, mainVars, toolVars, launcherVars>>

SpecPlanner == Init /\ [][PlannerNext]_vars

(***************************************************************************)
(* main.py: the `all` command.                                             *)
(***************************************************************************)
\* subprocess.run(..., check=True) once the host exited: CalledProcessError
\* on a non-zero status.
run_checked(returncode) == IF returncode = 0 THEN "returned" ELSE "raised"

\* _spawn for the i-th element of the list display: Popen starts the process
\* or raises.  The name `processes` is bound only when every element has been
\* evaluated; an exception here is outside the try statement and leaves
\* start_all at once.
Spawn(i, raised) ==
    /\ cmd_pc = "spawn"
    /\ i = Cardinality({p \in SiblingSet : proc_state[p] # "absent"}) + 1
    /\ i <= Len(Siblings)
    /\ IF raised
       THEN /\ cmd_pc' = "exit"
            /\ cmd_outcome' = "raised"
            /\ UNCHANGED <<processes, proc_state>>
       ELSE /\ proc_state' = [proc_state EXCEPT ![Siblings[i]] = "running"]
            /\ IF i = Len(Siblings)
               THEN /\ processes' = Siblings
                    /\ cmd_pc' = "run_host"
               ELSE UNCHANGED <<processes, cmd_pc>>
            /\ UNCHANGED cmd_outcome
    /\ UNCHANGED <<terminate_sent, host_state, host_returncode>>

\* The command is invoked.
StartAll ==
    /\ cmd_pc = "start"
    /\ cmd_pc' = "spawn"
    /\ UNCHANGED <<processes, proc_state, terminate_sent, host_state, host_returncode,
                   cmd_outcome>>

\* subprocess.run inside the try: Popen starts the host or raises.
HostStart(raised) ==
    /\ cmd_pc = "run_host"
    /\ IF raised
       THEN /\ host_state' = "not_started"
            /\ cmd_outcome' = "raised"
            /\ cmd_pc' = "finally"
       ELSE /\ host_state' = "running"
            /\ cmd_pc' = "wait_host"
            /\ UNCHANGED cmd_outcome
    /\ UNCHANGED <<processes, proc_state, terminate_sent, host_returncode>>

\* The host exits; check=True decides between return and CalledProcessError.
HostExit(returncode) ==
    /\ cmd_pc = "wait_host"
    /\ host_state' = "exited"
    /\ host_returncode' = returncode
    /\ cmd_outcome' = run_checked(returncode)
    /\ cmd_pc' = "finally"
    /\ UNCHANGED <<processes, proc_state, terminate_sent>>

\* The finally clause: one turn of `for proc in processes: proc.terminate()`.
Terminate ==
    /\ cmd_pc = "finally"
    /\ Cardinality(terminate_sent) < Len(processes)
    /\ terminate_sent' = terminate_sent \cup {processes[Cardinality(terminate_sent) + 1]}
    /\ UNCHANGED <<cmd_pc, processes, proc_state, host_state, host_returncode, cmd_outcome>>

\* The loop is over: start_all returns or re-raises what the try left pending.
FinallyDone ==
    /\ cmd_pc = "finally"
    /\ Cardinality(terminate_sent) = Len(processes)
    /\ cmd_pc' = "exit"
    /\ UNCHANGED <<processes, proc_state, terminate_sent, host_state, host_returncode,
                   cmd_outcome>>

\* A sibling process ends: by itself, or by the signal of the terminate() it
\* was sent while running.
SiblingExits(p, signalled) ==
    /\ proc_state[p] = "running"
    /\ signalled => p \in terminate_sent
    /\ proc_state' = [proc_state EXCEPT ![p] = IF signalled THEN "terminated" ELSE "exited"]
    /\ UNCHANGED <<cmd_pc, processes, terminate_sent, host_state, host_returncode,
                   cmd_outcome>>

LauncherNext ==
    /\ \/ StartAll
       \/ \E i \in 1..Len(Siblings), raised \in BOOLEAN : Spawn(i, raised)
       \/ \E raised \in BOOLEAN : HostStart(raised)
       \/ \E returncode \in ReturnCodes : HostExit(returncode)
       \/ Terminate
       \/ FinallyDone
       \/ \E p \in SiblingSet, signalled \in BOOLEAN : SiblingExits(p, signalled)
    /\ UNCHANGED <<agentVars, mainVars, toolVars, plannerVars>>

SpecLauncher == Init /\ [][LauncherNext]_vars

(***************************************************************************)
(* Properties of BeachAgent.                                               *)
(***************************************************************************)
\* The events stream owes for the chunk sequence cs: one event with
\* is_task_complete=false per non-empty chunk, in arrival order.
PartialsOf(cs) ==
    LET kept == SelectSeq(cs, Truthy)
    IN  [i \in 1..Len(kept) |-> TaskEvent(FALSE, kept[i])]

Finished(r) == pc[r] \in {"closing", "done"}

\* C1: the events of a stream call are zero or more events with
\* is_task_complete=false followed by exactly one with is_task_complete=true:
\* an event with is_task_complete=true is always the last one yielded, none
\* is yielded before the backend call has ended, one has been yielded once
\* it has ended, and no exception leaves the generator.
C1_StreamShape ==
    \A r \in Requests : kind[r] = "stream" =>
        /\ \A i \in 1..Len(events[r]) :
              events[r][i].is_task_complete <=> (Finished(r) /\ i = Len(events[r]))
        /\ Finished(r) => Len(events[r]) >= 1
        /\ ~escaped[r]

C1_Witness ==
    \E r \in Requests :
        /\ kind[r] = "stream" /\ pc[r] = "done" /\ backend[r] = "raised"
        /\ Len(events[r]) = 2 /\ events[r][2].is_task_complete

\* C2: an ainvoke call that has ended returned exactly one event, that event
\* has is_task_complete=true, and no exception left the call; before it
\* ends it has returned nothing.
C2_AinvokeOneTerminal ==
    \A r \in Requests : kind[r] = "ainvoke" =>
        /\ ~escaped[r]
        /\ pc[r] = "done" => Len(events[r]) = 1 /\ events[r][1].is_task_complete
        /\ pc[r] # "done" => events[r] = <<>>

C2_Witness ==
    \E r \in Requests :
        /\ kind[r] = "ainvoke" /\ pc[r] = "done" /\ backend[r] = "raised"
        /\ web_results[r] = "" /\ Len(events[r]) = 1

\* C3 as stated: after the streamed call raised behind N chunks, stream has
\* yielded N events with is_task_complete=false, one per chunk, then the
\* terminal event "Streaming error occurred.".
C3_Original ==
    \A r \in Requests : (kind[r] = "stream" /\ backend[r] = "raised") =>
        events[r] = [i \in 1..Len(chunks[r]) |-> TaskEvent(FALSE, chunks[r][i])]
                        \o <<TaskEvent(TRUE, Str("Streaming error occurred."))>>

\* C3 amended: after the streamed call raised behind N chunks, stream has
\* yielded one event with is_task_complete=false per non-empty chunk among
\* the N, in arrival order (empty chunks yield nothing), then exactly one
\* event with is_task_complete=true and content "Streaming error occurred.".
C3_StreamFailure ==
    \A r \in Requests : (kind[r] = "stream" /\ backend[r] = "raised") =>
        events[r] = PartialsOf(chunks[r])
                        \o <<TaskEvent(TRUE, Str("Streaming error occurred."))>>

C3_Witness ==
    \E r \in Requests :
        /\ kind[r] = "stream" /\ backend[r] = "raised"
        /\ chunks[r] = <<Str(""), Str("Bondi ")>>
        /\ Len(events[r]) = 2

\* C4: when the backend's single-shot call with the combined prompt raised,
\* ainvoke returned the event with is_task_complete=true and content
\* "Failed to retrieve information.", and no exception reached the caller.
C4_AinvokeFailure ==
    \A r \in Requests : (kind[r] = "ainvoke" /\ backend[r] = "raised") =>
        /\ events[r] = <<TaskEvent(TRUE, Str("Failed to retrieve information."))>>
        /\ ~escaped[r]

C4_Witness ==
    \E r \in Requests :
        /\ kind[r] = "ainvoke" /\ backend[r] = "raised" /\ pc[r] = "done"
        /\ web_results[r] # ""

\* C9: when the chunk sequence was exhausted without raising, the events
\* with is_task_complete=false are exactly the non-empty chunks, one each, in
\* arrival order, and the single final event has empty content.
C9_StreamSuccess ==
    \A r \in Requests : (kind[r] = "stream" /\ backend[r] = "exhausted") =>
        events[r] = PartialsOf(chunks[r]) \o <<TaskEvent(TRUE, Str(""))>>

C9_Witness ==
    \E r \in Requests :
        /\ kind[r] = "stream" /\ backend[r] = "exhausted"
        /\ chunks[r] = <<Str(""), Str("has surf.")>>
        /\ Len(events[r]) = 2

(***************************************************************************)
(* Properties of tool provisioning and the lifespan.                       *)
(***************************************************************************)
ProvisioningFailed == provision \in {"client_raised", "get_tools_raised", "zero_tools"}

\* The lifespan has yielded and its finally clause has not cleared the context.
BodyRuns == lpc \in {"body", "built", "serving"}

\* C5: when creating the client raised, get_tools raised or get_tools
\* returned zero tools, then once startup is over using_fallback_tools is true
\* and mcp_tools is the one-element list [local_beach_search], and the
\* failure never leaves app_lifespan: startup always reaches the body.
C5_FallbackOnFailure ==
    /\ ProvisioningFailed /\ (BodyRuns \/ lpc = "shutdown_aexit") =>
          /\ DOMAIN app_context = {"using_fallback_tools", "mcp_tools"}
          /\ app_context["using_fallback_tools"] = TRUE
          /\ app_context["mcp_tools"] = <<"local_beach_search">>
          /\ mcp_tools = <<"local_beach_search">>
    /\ ProvisioningFailed /\ BodyRuns => exception = "none"
    /\ lpc # "startup_raised"

C5_Witness ==
    /\ provision = "zero_tools" /\ lpc = "body"
    /\ aexit_calls = <<"startup">>
    /\ app_context["using_fallback_tools"] = TRUE

\* C6: the tool set is never empty: a tool list held in
\* app_context["mcp_tools"] has at least one tool, the context holds one
\* from the end of startup until shutdown clears it (where the executor is
\* constructed and requests are served), and the list the executor was
\* constructed with has at least one tool, on the live and the fallback path.
C6_ToolSetNeverEmpty ==
    /\ "mcp_tools" \in DOMAIN app_context => Len(app_context["mcp_tools"]) >= 1
    /\ (BodyRuns \/ lpc = "shutdown_aexit") => "mcp_tools" \in DOMAIN app_context
    /\ executor_built => Len(executor_tools) >= 1

C6_Witness ==
    /\ lpc = "serving" /\ executor_built
    /\ provision = "get_tools_raised"
    /\ executor_tools = <<"local_beach_search">>
    /\ pc["r1"] = "astream"

StartupDone == "mcp_tools" \in DOMAIN app_context

\* C7 as stated: once startup provisioning has finished, no action changes
\* using_fallback_tools or mcp_tools of app_context.
C7_Original == [][StartupDone => app_context' = app_context]_vars

\* C7 amended: a value written to app_context is never overwritten, and once
\* startup provisioning has finished no action (constructing the executor,
\* serving a request, awaiting the release of the client) changes
\* app_context, except the last step of app_lifespan's shutdown, which
\* clears it.
C7_ReadOnlyUntilCleared ==
    [][ /\ \A k \in DOMAIN app_context :
              k \in DOMAIN app_context' => app_context'[k] = app_context[k]
        /\ (StartupDone /\ lpc' # "lifespan_exited") => app_context' = app_context
        /\ lpc' = "lifespan_exited" => lpc \in {"body", "built", "serving", "shutdown_aexit"}
      ]_vars

C7_Witness ==
    /\ lpc = "serving" /\ StartupDone /\ executor_built
    /\ pc["r1"] = "done" /\ kind["r1"] = "stream"
    /\ app_context["using_fallback_tools"] = FALSE

\* C8: a client that provisioning kept (the live path) is not released while
\* the body runs, and once the body has ended, normally or with an error,
\* __aexit__ has been awaited on it exactly once, by the shutdown.
C8_ReleasedOnceAtShutdown ==
    provision = "ok" =>
        /\ BodyRuns => aexit_calls = <<>>
        /\ lpc \in {"shutdown_aexit", "lifespan_exited", "exit_ok", "exit_error"}
              => aexit_calls = <<"shutdown">>
        /\ lpc # "startup_raised"

C8_Witness ==
    /\ provision = "ok" /\ lpc = "exit_error" /\ exception = "error"
    /\ executor_built
    /\ aexit_calls = <<"shutdown">>

(***************************************************************************)
(* Properties of the fallback tool.                                        *)
(***************************************************************************)
NoResults == "No local beach information found for your query."

Catalog == {LOCAL_BEACHES[i] : i \in 1..Len(LOCAL_BEACHES)}

\* The query is, case-insensitively, a substring of one of the entry's fields.
FieldMatch(b, q) ==
    \/ Contains(lower(b.name), lower(q))
    \/ Contains(lower(b.location), lower(q))
    \/ Contains(lower(b.features), lower(q))

\* The query is, case-insensitively, a substring of "name location features".
TextMatch(b, q) ==
    Contains(lower(b.name \o " " \o b.location \o " " \o b.features), lower(q))

\* The rendering of entry i followed by a newline if a later entry matches.
RenderedFrom(i, q) ==
    IF ~TextMatch(LOCAL_BEACHES[i], q) THEN ""
    ELSE LET b == LOCAL_BEACHES[i]
         IN  b.name \o " (" \o b.location \o ") - " \o b.features
                \o (IF \E j \in (i + 1)..Len(LOCAL_BEACHES) : TextMatch(LOCAL_BEACHES[j], q)
                    THEN "\n" ELSE "")

\* C10 as stated: a query matching a field of an entry gets that entry's
\* name in the result, and a query matching no field of any entry gets the
\* fixed string.
C10_Original ==
    tool_called =>
        /\ \A b \in Catalog : FieldMatch(b, tool_query) => Contains(tool_result, b.name)
        /\ (\A b \in Catalog : ~FieldMatch(b, tool_query)) => tool_result = NoResults

\* C10 amended: a query that case-insensitively matches a field of an entry
\* gets that entry's name in the result; the result is the newline-joined
\* rendering, in catalog order, of the entries whose combined text
\* "name location features" contains the lower-cased query, and it is the
\* fixed string exactly when no entry's combined text contains it.
C10_FallbackSearch ==
    tool_called =>
        /\ \A b \in Catalog : FieldMatch(b, tool_query) => Contains(tool_result, b.name)
        /\ (\E b \in Catalog : TextMatch(b, tool_query)) =>
              tool_result = RenderedFrom(1, tool_query) \o RenderedFrom(2, tool_query)
                                \o RenderedFrom(3, tool_query)
        /\ (\A b \in Catalog : ~TextMatch(b, tool_query)) <=> tool_result = NoResults

C10_Witness ==
    /\ tool_called /\ tool_query = "Bo"
    /\ Contains(tool_result, "Bondi Beach")
    /\ Contains(tool_result, "\nSanta Monica Beach")
    /\ ~Contains(tool_result, "Waikiki")

(***************************************************************************)
(* Further properties of BeachAgent.                                       *)
(***************************************************************************)
\* The flags of the events a call left with its caller.
FlagsOf(r) ==
    [i \in 1..Len(events[r]) |->
        <<events[r][i].is_task_complete, events[r][i].require_user_input>>]

AinvokeEnded(r) == kind[r] = "ainvoke" /\ pc[r] = "done"

\* C11: two ainvoke calls with the same query, whatever the retrieval step
\* and the backend did in each, returned events with the same
\* is_task_complete and require_user_input flags.
C11_AinvokeSameFlags ==
    \A a \in Requests, b \in Requests :
        (AinvokeEnded(a) /\ AinvokeEnded(b) /\ query[a] = query[b]) =>
            FlagsOf(a) = FlagsOf(b)

C11_Witness ==
    /\ AinvokeEnded("r1") /\ AinvokeEnded("r2") /\ query["r1"] = query["r2"]
    /\ backend["r1"] = "raised" /\ backend["r2"] = "returned"
    /\ web_results["r1"] # web_results["r2"]
    /\ events["r1"] # events["r2"]

\* C19: every event ainvoke and stream left with a caller, on success and on
\* every failure path, has exactly the fields is_task_complete,
\* require_user_input and content, and require_user_input is false.
C19_NoUserInput ==
    \A r \in Requests : \A i \in 1..Len(events[r]) :
        /\ DOMAIN events[r][i] = {"is_task_complete", "require_user_input", "content"}
        /\ events[r][i].require_user_input = FALSE

C19_Witness ==
    /\ kind["r1"] = "stream" /\ backend["r1"] = "raised" /\ Len(events["r1"]) = 3
    /\ kind["r2"] = "ainvoke" /\ backend["r2"] = "raised" /\ Len(events["r2"]) = 1

\* The call has got past its retrieval step.
PastSearch(r) == pc[r] \in {"invoke", "astream", "closing", "done"}

\* C12: a retrieval step that raised or returned empty or non-str content
\* leaves empty supplementary context and nothing escapes: the backend is
\* then called, after the retrieval call, with the combined prompt built on
\* the empty context, and the call ends with its normal events (ainvoke one
\* terminal event; stream its partial events and one terminal event).
C12_RetrievalFailureSwallowed ==
    \A r \in Requests : retrieval[r] = "failed" =>
        /\ PastSearch(r) /\ ~escaped[r]
        /\ web_results[r] = ""
        /\ prompt[r] = build_prompt("", query[r])
        /\ Len(calls[r]) = 2
        /\ calls[r][1] = BackendCall("ainvoke", search_prompt(query[r]))
        /\ calls[r][2] = BackendCall(IF kind[r] = "ainvoke" THEN "ainvoke" ELSE "astream",
                                     build_prompt("", query[r]))
        /\ pc[r] = "done" =>
              /\ events[r] # <<>>
              /\ \A i \in 1..Len(events[r]) :
                    events[r][i].is_task_complete <=> i = Len(events[r])
              /\ kind[r] = "ainvoke" => Len(events[r]) = 1
              /\ kind[r] = "stream" => Len(events[r]) = Len(SelectSeq(chunks[r], Truthy)) + 1

C12_Witness ==
    /\ retrieval["r1"] = "failed" /\ kind["r1"] = "stream" /\ pc["r1"] = "done"
    /\ backend["r1"] = "exhausted" /\ Len(events["r1"]) = 3
    /\ retrieval["r2"] = "failed" /\ kind["r2"] = "ainvoke" /\ pc["r2"] = "done"
    /\ backend["r2"] = "returned"

\* C17: within one call the retrieval call is issued at most once and the
\* backend call with the combined prompt at most once, in that order, and
\* once either has failed no further backend call is issued by that call.
C17_NoRetry ==
    \A r \in Requests :
        /\ Len(calls[r]) <= 2
        /\ Len(calls[r]) >= 1 => calls[r][1] = BackendCall("ainvoke", search_prompt(query[r]))
        /\ Len(calls[r]) = 2 =>
              calls[r][2] = BackendCall(IF kind[r] = "ainvoke" THEN "ainvoke" ELSE "astream",
                                        prompt[r])
        /\ Len(calls[r]) = (IF pc[r] = "idle" THEN 0 ELSE IF pc[r] = "search" THEN 1 ELSE 2)

C17_Witness ==
    \E r \in Requests :
        /\ pc[r] = "done" /\ retrieval[r] = "failed" /\ backend[r] = "raised"
        /\ kind[r] = "stream" /\ Len(chunks[r]) = 1
        /\ Len(calls[r]) = 2

\* Everything a call holds.
CallState(r) ==
    <<pc[r], kind[r], query[r], web_results[r], prompt[r], chunks[r], backend[r],
      events[r], escaped[r], calls[r], retrieval[r]>>

\* The events a call owes for what its own backend call has done so far.
OwnEvents(r) ==
    IF kind[r] = "stream"
    THEN PartialsOf(chunks[r])
            \o (IF backend[r] = "exhausted" THEN <<TaskEvent(TRUE, Str(""))>>
                ELSE IF backend[r] = "raised"
                     THEN <<TaskEvent(TRUE, Str("Streaming error occurred."))>>
                     ELSE <<>>)
    ELSE events[r]

\* C13: calls in flight together do not touch each other: every step changes
\* the state of at most one call and leaves the provisioning state alone,
\* and whatever the interleaving a call's events are the ones its own chunks
\* and its own backend outcome give (partial events for its non-empty chunks,
\* then one terminal event; one terminal event for ainvoke).
C13_Independent ==
    [][ /\ \A a \in Requests, b \in Requests :
              a # b => (CallState(a)' = CallState(a) \/ CallState(b)' = CallState(b))
        /\ mainVars' = mainVars
        /\ \A r \in Requests :
              /\ events'[r] = OwnEvents(r)'
              /\ (kind'[r] = "ainvoke" /\ pc'[r] = "done") =>
                    (Len(events'[r]) = 1 /\ events'[r][1].is_task_complete)
              /\ (kind'[r] = "ainvoke" /\ pc'[r] # "done") => events'[r] = <<>>
      ]_vars

C13_Witness ==
    /\ pc["r1"] = "astream" /\ Len(chunks["r1"]) = 1 /\ Len(events["r1"]) = 1
    /\ pc["r2"] = "closing" /\ Len(chunks["r2"]) = 2 /\ Len(events["r2"]) = 2
    /\ query["r1"] = query["r2"]
    /\ events["r1"][1] # events["r2"][1]

(***************************************************************************)
(* Further properties of the lifespan.                                     *)
(***************************************************************************)
\* app_lifespan has written both using_fallback_tools and mcp_tools.
Provisioned == DOMAIN app_context = {"using_fallback_tools", "mcp_tools"}

ServerStopped == lpc \in {"shutdown_aexit", "lifespan_exited", "exit_ok", "exit_error"}

ReleasedAtShutdown == \E i \in 1..Len(aexit_calls) : aexit_calls[i] = "shutdown"

\* C14: the executor is constructed, the server starts serving and requests
\* are served only once app_lifespan has written using_fallback_tools and
\* mcp_tools; the shutdown release of the client and the clearing of the
\* context happen only when the server has stopped, and nothing is served
\* afterwards.
C14_Lifecycle ==
    [][ /\ (executor_built' /\ ~executor_built) => Provisioned
        /\ lpc' = "serving" => (Provisioned' /\ executor_built')
        /\ agentVars' # agentVars => (lpc = "serving" /\ lpc' = "serving" /\ Provisioned)
        /\ (ReleasedAtShutdown' /\ ~ReleasedAtShutdown) => (BodyRuns /\ ServerStopped')
        /\ (Provisioned /\ ~Provisioned') => (lpc' = "lifespan_exited" /\ ServerStopped')
        /\ ServerStopped => (ServerStopped' /\ agentVars' = agentVars)
      ]_vars

C14_Witness ==
    /\ lpc = "exit_ok" /\ provision = "ok" /\ executor_built
    /\ aexit_calls = <<"shutdown">> /\ app_context = EmptyDict
    /\ pc["r1"] = "done" /\ kind["r1"] = "ainvoke"

\* C15: a raise of __aexit__ does not escalate.  In the startup cleanup the
\* lifespan still reaches its body with using_fallback_tools=true and
\* mcp_tools=[local_beach_search]; at shutdown the context is still cleared,
\* the lifespan still ends, and the exception leaving it is the one the body
\* ended with (none if the body ended normally).
C15_ReleaseFailureContained ==
    [][ /\ ("startup" \in aexit_failed' /\ "startup" \notin aexit_failed) =>
              /\ lpc' = "body"
              /\ exception' = "none"
              /\ Provisioned'
              /\ app_context'["using_fallback_tools"] = TRUE
              /\ app_context'["mcp_tools"] = <<"local_beach_search">>
        /\ ("shutdown" \in aexit_failed' /\ "shutdown" \notin aexit_failed) =>
              /\ lpc' = "lifespan_exited"
              /\ app_context' = EmptyDict
              /\ exception' = exception
        /\ (lpc = "lifespan_exited" /\ lpc' = "exit_error") => exception = "error"
      ]_vars

C15_Witness ==
    /\ aexit_failed = {"shutdown"} /\ lpc = "exit_ok"
    /\ exception = "none" /\ app_context = EmptyDict

\* C20: __aexit__ is awaited at most once over startup and shutdown; while
\* the body runs using_fallback_tools is false exactly when the lifespan
\* still holds a client to release; a client released by the startup cleanup
\* is dropped, and on the fallback path the shutdown releases nothing.
C20_AtMostOneRelease ==
    /\ Len(aexit_calls) <= 1
    /\ (BodyRuns /\ Provisioned) =>
          (app_context["using_fallback_tools"] = FALSE <=> mcp_client_instance = "client")
    /\ (aexit_calls = <<"startup">> /\ lpc # "cleanup_aexit") => mcp_client_instance = "None"
    /\ (ProvisioningFailed /\ lpc # "get_tools") => ~ReleasedAtShutdown
    /\ (ServerStopped /\ mcp_client_instance = "client") => ReleasedAtShutdown

C20_Witness ==
    /\ provision = "zero_tools" /\ lpc = "exit_ok"
    /\ aexit_calls = <<"startup">> /\ mcp_client_instance = "None"
    /\ executor_built

StreamEnded(r) ==
    /\ pc[r] = "done"
    /\ events[r] # <<>>
    /\ events[r][Len(events[r])].is_task_complete

\* C16: when the awaited backend calls come back and the chunk stream is
\* finite or raises, every stream call yields its event with
\* is_task_complete=true and ends; and a stream call that has ended issued
\* its own retrieval call and its own astream call, for its own query.
C16_StreamTerminates ==
    /\ \A r \in Requests : (kind[r] = "stream" /\ pc[r] = "search") ~> StreamEnded(r)
    /\ [](\A r \in Requests : (kind[r] = "stream" /\ pc[r] = "done") =>
            calls[r] = <<BackendCall("ainvoke", search_prompt(query[r])),
                         BackendCall("astream", build_prompt(web_results[r], query[r]))>>)

C16_Witness ==
    /\ kind["r1"] = "stream" /\ StreamEnded("r1")
    /\ Len(chunks["r1"]) = MaxChunks /\ backend["r1"] = "exhausted"
    /\ Len(calls["r1"]) = 2

(***************************************************************************)
(* Properties of PlannerAgent.stream.                                      *)
(***************************************************************************)
\* One event with done=false per chunk that has non-empty content, in order.
PlannerPartials(cs) ==
    LET kept == SelectSeq(cs, LAMBDA c : c.has_content /\ c.content # "")
    IN  [i \in 1..Len(kept) |-> [content |-> kept[i].content, done |-> FALSE]]

Apology == "Sorry, an error occurred while processing your request."

\* C18: whatever building the messages and the chunk stream do, the events
\* of PlannerAgent.stream are one event with done=false per non-empty chunk,
\* in arrival order, then, once the stream is exhausted or anything raised,
\* exactly one event with done=true, with empty content after exhaustion and
\* the apology after a raise; nothing is yielded after it and no exception
\* leaves the generator.
C18_PlannerStream ==
    /\ ~pescaped
    /\ pevents = PlannerPartials(pchunks)
                    \o (IF pbackend = "exhausted" THEN <<[content |-> "", done |-> TRUE]>>
                        ELSE IF pbackend \in {"raised", "build_raised"}
                             THEN <<[content |-> Apology, done |-> TRUE]>>
                             ELSE <<>>)
    /\ ppc \in {"closing", "done"} <=> pbackend \in {"exhausted", "raised", "build_raised"}
    /\ pbackend = "build_raised" => pchunks = <<>>

C18_Witness ==
    /\ ppc = "done" /\ pbackend = "raised"
    /\ pchunks = <<PlannerChunk(FALSE, ""), PlannerChunk(TRUE, "Pack ")>>
    /\ Len(pevents) = 2

(***************************************************************************)
(* Properties of the `all` command.                                        *)
(***************************************************************************)
\* The siblings Popen has started.
SpawnedSiblings == {p \in SiblingSet : proc_state[p] # "absent"}

\* C21: on every exit path of the `all` command (the host exits normally,
\* exits with a non-zero status, or starting a process fails), every sibling
\* that was spawned has been sent terminate when the command returns or
\* raises.
C21_SiblingsTerminated ==
    cmd_pc = "exit" => SpawnedSiblings \subseteq terminate_sent

\* Once the list of handles is bound, every exit path goes through the
\* finally clause and every sibling has been sent terminate.
SiblingsTerminatedOnceBound ==
    (cmd_pc = "exit" /\ processes # <<>>) => SpawnedSiblings \subseteq terminate_sent

\* The second spawn failed while the first sibling is still running.
SiblingLeftRunning ==
    /\ cmd_pc = "exit" /\ cmd_outcome = "raised" /\ processes = <<>>
    /\ proc_state["weather_agent"] = "running"
    /\ "weather_agent" \notin terminate_sent

====
